---- MODULE Spec2Model ----
(***************************************************************************)
(* Kettlebell-VBT: the analysis endpoint (api/analyze.js) as a state       *)
(* machine, with its response normaliser parseGeminiResponse and the       *)
(* metric helpers calculateAvg / calculateDropoff as operators, and the    *)
(* frontend (app.js) as a second state machine: the user's events and the  *)
(* asynchronous steps of analyzeVideo.                                     *)
(*                                                                         *)
(* Text is modelled as a sequence of lexemes (tokens).  Every token has    *)
(* its character count (field n), so that substring(0, 300) cuts where the *)
(* code cuts.  JavaScript values are records tagged with their type t;       *)
(* JavaScript numbers are exact fractions <<numerator, denominator>>.      *)
(***************************************************************************)
EXTENDS Integers, Sequences, FiniteSets, TLC

VARIABLES
    req,        \* the request being handled: [method, body]
    pc,         \* position of the handler (or of the pure-function harness)
    prompt,     \* the prompt compiled by buildPrompt, or NoPrompt
    aiCalls,    \* number of generateContent invocations for this request
    aiOut,      \* what the model produced: [pre, payload, suf] or NoOut
    text,       \* response.text(): the token sequence handed to the parser
    result,     \* value returned by parseGeminiResponse, or NoResult
    responses,  \* responses written to res, in order
    reps,       \* argument of the metric helpers (metrics harness)
    metric,     \* values returned by the metric helpers (metrics harness)
    app,        \* the frontend object (app.js): videoFile and its page elements
    analyses    \* the activations of analyzeVideo that have not returned yet

\* the variables of the endpoint, and those of the frontend
backend == <<req, pc, prompt, aiCalls, aiOut, text, result, responses, reps, metric>>
frontend == <<app, analyses>>

vars == <<req, pc, prompt, aiCalls, aiOut, text, result, responses, reps, metric,
          app, analyses>>

(***************************************************************************)
(* Bounds of the model                                                     *)
(***************************************************************************)
MaxReps == 2        \* longest reps array inside a model reply
MaxMetricReps == 4  \* longest reps array given to the metric helpers

(***************************************************************************)
(* JavaScript numbers: exact fractions in lowest terms                     *)
(***************************************************************************)
Abs(x) == IF x < 0 THEN -x ELSE x

RECURSIVE GCD(_, _)
GCD(a, b) == IF b = 0 THEN a ELSE GCD(b, a % b)

Rat(n, d) ==
    LET g == GCD(Abs(n), Abs(d))
        s == IF d < 0 THEN -1 ELSE 1
    IN  <<(s * n) \div g, (s * d) \div g>>

RAdd(a, b) == Rat(a[1] * b[2] + b[1] * a[2], a[2] * b[2])
RSub(a, b) == Rat(a[1] * b[2] - b[1] * a[2], a[2] * b[2])
RMul(a, b) == Rat(a[1] * b[1], a[2] * b[2])
RDiv(a, b) == Rat(a[1] * b[2], a[2] * b[1])
RZero == <<0, 1>>

(***************************************************************************)
(* JavaScript values                                                       *)
(***************************************************************************)
\* every value carries every field, so that any two values can be compared
Undefined == [t |-> "undefined", num |-> <<0, 1>>, str |-> <<>>, items |-> <<>>, members |-> <<>>]
Null == [Undefined EXCEPT !.t = "null"]
NumR(r) == [Undefined EXCEPT !.t = "number", !.num = r]
Num(n) == NumR(Rat(n, 1))
Str(s) == [Undefined EXCEPT !.t = "string", !.str = s]
Arr(s) == [Undefined EXCEPT !.t = "array", !.items = s]
Obj(ms) == [Undefined EXCEPT !.t = "object", !.members = ms]   \* <<[k, val], ...>> in text order
Member(k, x) == [k |-> k, val |-> x]

\* ToBoolean, as used by !x and x || y
Truthy(x) ==
    CASE x.t = "undefined" -> FALSE
      [] x.t = "null" -> FALSE
      [] x.t = "number" -> x.num[1] # 0
      [] x.t = "string" -> x.str # <<>>
      [] OTHER -> TRUE

\* a || b  (b is only evaluated when a is falsy)
Or(a, b) == IF Truthy(a) THEN a ELSE b

RECURSIVE Lookup(_, _, _)
Lookup(ms, k, i) ==
    IF i = 0 THEN Undefined
    ELSE IF ms[i].k = k THEN ms[i].val
    ELSE Lookup(ms, k, i - 1)

\* x.k for a non-nullish x (JSON.parse keeps the last of duplicate keys)
GetProp(x, k) ==
    CASE x.t = "object" -> Lookup(x.members, k, Len(x.members))
      [] x.t = "array" /\ k = "length" -> Num(Len(x.items))
      [] OTHER -> Undefined

\* x.k throws a TypeError when x is null or undefined
Nullish(x) == x.t \in {"undefined", "null"}

\* x?.k
OptProp(x, k) == IF Nullish(x) THEN Undefined ELSE GetProp(x, k)

\* x?.[i] with a 0-based index i
OptIndex(x, i) ==
    IF x.t = "array" /\ i >= 0 /\ i < Len(x.items) THEN x.items[i + 1] ELSE Undefined

(***************************************************************************)
(* Text: a JavaScript string is a sequence of tokens [c, s, n]: class,     *)
(* spelling and number of characters.  A separator (comma, colon) belongs  *)
(* to the key or element that follows it.                                  *)
(***************************************************************************)
T(c, s, n) == [c |-> c, s |-> s, n |-> n]

LBrace == T("punct", "{", 1)
RBrace == T("punct", "}", 1)
LBrack == T("punct", "[", 1)
RBrack == T("punct", "]", 1)
Fence == T("punct", "fence", 3)        \* the three-backtick markdown fence
Space == T("ws", " ", 1)
Newline == T("ws", "\n", 1)
NullTok == T("lit", "null", 4)
JsonTag == T("word", "json", 4)
W(s, n) == T("word", s, n)              \* prose, language tags
NumTok(s) == T("num", s, Len(s))        \* a JSON number literal
StrTok(s) == T("str", s, Len(s) + 2)    \* a JSON string literal "s"
KeyTok(k) == T("key", k, Len(k) + 3)    \* "k":

\* the value of a number literal
NumVal(s) ==
    CASE s = "0" -> <<0, 1>>
      [] s = "1" -> <<1, 1>>
      [] s = "2" -> <<2, 1>>
      [] s = "3" -> <<3, 1>>
      [] s = "4" -> <<4, 1>>
      [] s = "5" -> <<5, 1>>
      [] s = "6" -> <<6, 1>>
      [] s = "7" -> <<7, 1>>
      [] s = "8" -> <<8, 1>>
      [] s = "1.5" -> <<3, 2>>
      [] s = "25" -> <<25, 1>>
      [] s = "123" -> <<123, 1>>

NumStrs == {"0", "1", "2", "3", "4", "5", "6", "7", "8", "1.5", "25", "123"}

RECURSIVE CharLen(_)
CharLen(s) == IF s = <<>> THEN 0 ELSE Head(s).n + CharLen(Tail(s))

\* s.substring(0, n)
RECURSIVE Substring(_, _)
Substring(s, n) ==
    IF s = <<>> \/ n <= 0 THEN <<>>
    ELSE IF Head(s).n <= n THEN <<Head(s)>> \o Substring(Tail(s), n - Head(s).n)
    ELSE <<[Head(s) EXCEPT !.n = n]>>

IsWs(tok) == tok.c = "ws"

RECURSIVE TrimStart(_)
TrimStart(s) == IF s # <<>> /\ IsWs(Head(s)) THEN TrimStart(Tail(s)) ELSE s

RECURSIVE TrimEnd(_)
TrimEnd(s) ==
    IF s # <<>> /\ IsWs(s[Len(s)]) THEN TrimEnd(SubSeq(s, 1, Len(s) - 1)) ELSE s

\* s.trim()
Trim(s) == TrimEnd(TrimStart(s))

\* s.startsWith(fence + 'json'), s.startsWith(fence), s.endsWith(fence)
StartsWithFenceJson(s) == Len(s) >= 2 /\ s[1] = Fence /\ s[2] = JsonTag
StartsWithFence(s) == Len(s) >= 1 /\ s[1] = Fence
EndsWithFence(s) == Len(s) >= 1 /\ s[Len(s)] = Fence

\* fence removal that forgets the closing fence
StripLeadingFenceOnly(s) ==
    LET a == IF StartsWithFenceJson(s) THEN SubSeq(s, 3, Len(s)) ELSE s
    IN  IF StartsWithFence(a) THEN SubSeq(a, 2, Len(a)) ELSE a

\* the three fence-removing statements of parseGeminiResponse
StripFences(s) ==
    LET a == IF StartsWithFenceJson(s) THEN SubSeq(s, 3, Len(s)) ELSE s
        b == IF StartsWithFence(a) THEN SubSeq(a, 2, Len(a)) ELSE a
    IN  IF EndsWithFence(b) THEN SubSeq(b, 1, Len(b) - 1) ELSE b

\* cleanText.match(/\{[\s\S]*\}/): from the first { to the last } after it
Indices(s, tok) == {i \in 1..Len(s) : s[i] = tok}
Min(S) == CHOOSE x \in S : \A y \in S : x <= y
Max(S) == CHOOSE x \in S : \A y \in S : x >= y
\* no search for an embedded object: the text is parsed as it is
NoExtraction(s) == s

HasMatch(s) ==
    /\ Indices(s, LBrace) # {}
    /\ \E j \in Indices(s, RBrace) : j > Min(Indices(s, LBrace))
JsonMatch(s) ==
    IF HasMatch(s)
    THEN SubSeq(s, Min(Indices(s, LBrace)), Max(Indices(s, RBrace)))
    ELSE s

(***************************************************************************)
(* JSON.parse over tokens: [ok, val, next]; ok = FALSE is a SyntaxError    *)
(***************************************************************************)
ParseFail == [ok |-> FALSE, val |-> Undefined, next |-> 0]
ParseOk(x, i) == [ok |-> TRUE, val |-> x, next |-> i]

RECURSIVE SkipWs(_, _)
SkipWs(s, i) == IF i <= Len(s) /\ IsWs(s[i]) THEN SkipWs(s, i + 1) ELSE i

RECURSIVE ParseValue(_, _)
RECURSIVE ParseMembers(_, _, _)
RECURSIVE ParseElements(_, _, _)

ParseValue(s, i0) ==
    LET i == SkipWs(s, i0)
    IN  IF i > Len(s) THEN ParseFail
        ELSE CASE s[i] = LBrace -> ParseMembers(s, i + 1, <<>>)
               [] s[i] = LBrack -> ParseElements(s, i + 1, <<>>)
               [] s[i] = NullTok -> ParseOk(Null, i + 1)
               [] s[i].c = "num" -> ParseOk(NumR(NumVal(s[i].s)), i + 1)
               [] s[i].c = "str" ->
                    ParseOk(Str(IF s[i].n = 2 THEN <<>> ELSE <<W(s[i].s, s[i].n - 2)>>), i + 1)
               [] OTHER -> ParseFail

ParseMembers(s, i0, acc) ==
    LET i == SkipWs(s, i0)
    IN  IF i > Len(s) THEN ParseFail
        ELSE IF s[i] = RBrace THEN ParseOk(Obj(acc), i + 1)
        ELSE IF s[i].c = "key"
        THEN LET r == ParseValue(s, i + 1)
             IN  IF r.ok
                 THEN ParseMembers(s, r.next, Append(acc, Member(s[i].s, r.val)))
                 ELSE ParseFail
        ELSE ParseFail

ParseElements(s, i0, acc) ==
    LET i == SkipWs(s, i0)
    IN  IF i > Len(s) THEN ParseFail
        ELSE IF s[i] = RBrack THEN ParseOk(Arr(acc), i + 1)
        ELSE LET r == ParseValue(s, i)
             IN  IF r.ok THEN ParseElements(s, r.next, Append(acc, r.val))
                 ELSE ParseFail

\* JSON.parse(s): the whole text must be one value
JSONParse(s) ==
    LET r == ParseValue(s, 1)
    IN  IF r.ok /\ SkipWs(s, r.next) > Len(s) THEN r ELSE ParseFail

(***************************************************************************)
(* Exceptions: an evaluation either completes with a value or throws       *)
(***************************************************************************)
Thrown == [Undefined EXCEPT !.t = "throw"]
IsThrown(x) == x.t = "throw"

(***************************************************************************)
(* Metrics derivation                                                      *)
(***************************************************************************)
\* rep[field] || 0, as a fraction
FieldOrZero(rep, field) == Or(GetProp(rep, field), Num(0)).num

\* reps.reduce((acc, rep) => acc + (rep[field] || 0), 0) over the first n reps
RECURSIVE SumField(_, _, _)
SumField(rs, field, n) ==
    IF n = 0 THEN RZero
    ELSE RAdd(SumField(rs, field, n - 1), FieldOrZero(rs[n], field))

\* an average that always reads the duration, whatever field is asked for
calculateAvgOfDuration(repsV, field) ==
    IF ~Truthy(repsV) THEN Num(0)
    ELSE IF GetProp(repsV, "length") = Num(0) THEN Num(0)
    ELSE IF repsV.t # "array" THEN Thrown
    ELSE IF \E i \in 1..Len(repsV.items) : Nullish(repsV.items[i]) THEN Thrown
    ELSE NumR(RDiv(SumField(repsV.items, "duration", Len(repsV.items)),
                   Rat(Len(repsV.items), 1)))

calculateAvg(repsV, field) ==
    IF ~Truthy(repsV) THEN Num(0)
    ELSE IF GetProp(repsV, "length") = Num(0) THEN Num(0)
    ELSE IF repsV.t # "array" THEN Thrown                    \* reps.reduce is not a function
    ELSE IF \E i \in 1..Len(repsV.items) : Nullish(repsV.items[i]) THEN Thrown   \* rep[field] of null
    ELSE NumR(RDiv(SumField(repsV.items, field, Len(repsV.items)), Rat(Len(repsV.items), 1)))

\* a dropoff between the reps with the lowest and the highest repNumber
calculateDropoffByRepNumber(repsV) ==
    IF ~Truthy(repsV) THEN Num(0)
    ELSE IF repsV.t = "array" /\ Len(repsV.items) < 2 THEN Num(0)
    ELSE LET n == Len(repsV.items)
             no(i) == GetProp(repsV.items[i], "repNumber").num[1]
             lo == CHOOSE i \in 1..n : \A j \in 1..n : no(i) <= no(j)
             hi == CHOOSE i \in 1..n : \A j \in 1..n : no(i) >= no(j)
             firstVelocity == Or(OptProp(OptIndex(repsV, lo - 1), "velocityScore"), Num(0))
             lastVelocity == Or(OptProp(OptIndex(repsV, hi - 1), "velocityScore"), Num(0))
         IN  IF firstVelocity = Num(0) THEN Num(0)
             ELSE NumR(RMul(RDiv(RSub(firstVelocity.num, lastVelocity.num), firstVelocity.num),
                            Rat(100, 1)))

calculateDropoff(repsV) ==
    IF ~Truthy(repsV) THEN Num(0)
    ELSE IF repsV.t = "array" /\ Len(repsV.items) < 2 THEN Num(0)
    ELSE LET n == IF repsV.t = "array" THEN Len(repsV.items) ELSE 0
             firstVelocity == Or(OptProp(OptIndex(repsV, 0), "velocityScore"), Num(0))
             lastVelocity == Or(OptProp(OptIndex(repsV, n - 1), "velocityScore"), Num(0))
         IN  IF firstVelocity = Num(0) THEN Num(0)
             ELSE NumR(RMul(RDiv(RSub(firstVelocity.num, lastVelocity.num), firstVelocity.num),
                            Rat(100, 1)))

(***************************************************************************)
(* parseGeminiResponse                                                     *)
(***************************************************************************)
SubstringLimit == 300
DefaultNotes == Str(<<W("Analysis complete. Review the rep-by-rep data for insights.", 59)>>)
ParseErrorPrefix == W("Parse error. Gemini response: ", 30)

\* the text handed to JSON.parse
CleanText(txt) == Trim(JsonMatch(StripFences(Trim(txt))))

\* a success path whose slowestRep default ignores the reps array
NormalizeWithoutRepsLength(data) ==
    LET repsV == GetProp(data, "reps")
        summary == GetProp(data, "summary")
        len == OptProp(repsV, "length")
        avgD == Or(OptProp(summary, "avgDuration"), calculateAvg(repsV, "duration"))
        avgV == Or(OptProp(summary, "avgVelocity"), calculateAvg(repsV, "velocityScore"))
        drop == Or(OptProp(summary, "velocityDropPercent"), calculateDropoff(repsV))
    IN  IF IsThrown(avgD) \/ IsThrown(avgV) \/ IsThrown(drop) THEN Thrown
        ELSE [t |-> "result",
              reps |-> Or(repsV, Arr(<<>>)),
              totalReps |-> Or(Or(OptProp(summary, "totalReps"), len), Num(0)),
              avgDuration |-> avgD,
              avgVelocity |-> avgV,
              fastestRep |-> Or(OptProp(summary, "fastestRep"), Num(1)),
              slowestRep |-> Or(OptProp(summary, "slowestRep"), Num(1)),
              velocityDropoff |-> drop,
              coachingNotes |-> Or(GetProp(data, "coachingNotes"), DefaultNotes)]

\* the object literal returned on the success path
Normalize(data) ==
    LET repsV == GetProp(data, "reps")
        summary == GetProp(data, "summary")
        len == OptProp(repsV, "length")
        avgD == Or(OptProp(summary, "avgDuration"), calculateAvg(repsV, "duration"))
        avgV == Or(OptProp(summary, "avgVelocity"), calculateAvg(repsV, "velocityScore"))
        drop == Or(OptProp(summary, "velocityDropPercent"), calculateDropoff(repsV))
    IN  IF IsThrown(avgD) \/ IsThrown(avgV) \/ IsThrown(drop) THEN Thrown
        ELSE [t |-> "result",
              reps |-> Or(repsV, Arr(<<>>)),
              totalReps |-> Or(Or(OptProp(summary, "totalReps"), len), Num(0)),
              avgDuration |-> avgD,
              avgVelocity |-> avgV,
              fastestRep |-> Or(OptProp(summary, "fastestRep"), Num(1)),
              slowestRep |-> Or(Or(OptProp(summary, "slowestRep"), len), Num(1)),
              velocityDropoff |-> drop,
              coachingNotes |-> Or(GetProp(data, "coachingNotes"), DefaultNotes)]

\* the try block: a SyntaxError of JSON.parse, a TypeError of data.reps on null
TryParse(txt) ==
    LET p == JSONParse(CleanText(txt))
    IN  IF ~p.ok THEN Thrown
        ELSE IF Nullish(p.val) THEN Thrown
        ELSE Normalize(p.val)

\* the catch block
Fallback(txt) ==
    [t |-> "result",
     reps |-> Arr(<<>>),
     totalReps |-> Num(0),
     avgDuration |-> Num(0),
     avgVelocity |-> Num(0),
     fastestRep |-> Num(0),
     slowestRep |-> Num(0),
     velocityDropoff |-> Num(0),
     coachingNotes |-> Str(<<ParseErrorPrefix>> \o Substring(txt, SubstringLimit))]

\* the try block alone, with no catch around it
parseWithoutCatch(txt) == TryParse(txt)

parseGeminiResponse(txt) ==
    LET r == TryParse(txt)
    IN  IF IsThrown(r) THEN Fallback(txt) ELSE r

(***************************************************************************)
(* The model's reply: a JSON value written out as text (the shape the      *)
(* prompt asks for), possibly wrapped in fences or prose                   *)
(***************************************************************************)
NumStr(r) == CHOOSE s \in NumStrs : NumVal(s) = r

RECURSIVE Stringify(_)
RECURSIVE StringifyMembers(_)
RECURSIVE StringifyElements(_)

Stringify(x) ==
    CASE x.t = "object" -> <<LBrace>> \o StringifyMembers(x.members) \o <<RBrace>>
      [] x.t = "array" -> <<LBrack>> \o StringifyElements(x.items) \o <<RBrack>>
      [] x.t = "number" -> <<NumTok(NumStr(x.num))>>
      [] x.t = "string" ->
           <<IF x.str = <<>> THEN T("str", "", 2) ELSE T("str", x.str[1].s, x.str[1].n + 2)>>
      [] x.t = "null" -> <<NullTok>>

StringifyMembers(ms) ==
    IF ms = <<>> THEN <<>>
    ELSE <<KeyTok(Head(ms).k)>> \o Stringify(Head(ms).val) \o StringifyMembers(Tail(ms))

StringifyElements(xs) ==
    IF xs = <<>> THEN <<>>
    ELSE Stringify(Head(xs)) \o StringifyElements(Tail(xs))

(***************************************************************************)
(* Replies of the model: [pre, kind, val, junk, suf, err]; the text is      *)
(* pre \o body \o suf, the body being a JSON value or non-JSON junk        *)
(***************************************************************************)
Rep(d, v) == Obj(<<Member("duration", NumR(NumVal(d))), Member("velocityScore", NumR(NumVal(v)))>>)

ReplyRepPool == {Rep("1", "8"), Rep("2", "4"), Rep("1.5", "0")}

SeqsUpTo(S, n) == UNION {[1..k -> S] : k \in 0..n}

SummaryKeys ==
    <<"totalReps", "avgDuration", "avgVelocity", "fastestRep", "slowestRep",
      "velocityDropPercent">>

\* a summary whose six fields are the number literals vals[1..6]
SummaryOf(vals) == Obj([i \in 1..6 |-> Member(SummaryKeys[i], NumR(NumVal(vals[i])))])

ReportedSummary == <<"3", "1.5", "6", "2", "1", "25">>

\* the reported summary, and the same with any one field reported as 0
SummaryVals == {ReportedSummary} \cup {[ReportedSummary EXCEPT ![i] = "0"] : i \in 1..6}

\* the optional members of a reply object: <<>> stands for "member absent"
RepsMembers(maxLen) ==
    {<<>>} \cup {<<Member("reps", Arr(rs))>> : rs \in SeqsUpTo(ReplyRepPool, maxLen)}
           \cup {<<Member("reps", Num(5))>>, <<Member("reps", Arr(<<Null>>))>>}
SummaryMembers ==
    {<<>>, <<Member("summary", Obj(<<>>))>>,
     <<Member("summary", Obj(<<Member("totalReps", Num(3))>>))>>}
        \cup {<<Member("summary", SummaryOf(vals))>> : vals \in SummaryVals}
NotesMembers == {<<>>, <<Member("coachingNotes", Str(<<W("Good", 4)>>))>>}

ReplyObjects(maxLen) ==
    {Obj(r \o sm \o n) : r \in RepsMembers(maxLen), sm \in SummaryMembers, n \in NotesMembers}

\* JSON that is not an object
OtherJson == {Arr(<<>>), Num(123), Null, Arr(<<Obj(<<>>)>>)}

\* text that is not JSON: an apology, a reply cut short, nothing, a long ramble
Lorem == W("lorem", 200)
Junk == {<<W("Sorry", 5)>>, <<LBrace, KeyTok("reps"), LBrack>>, <<>>, <<Lorem, Lorem>>}

NoWrap == [pre |-> <<>>, suf |-> <<>>]
FenceWraps ==
    {[pre |-> <<Fence, JsonTag, Newline>>, suf |-> <<Newline, Fence>>],
     [pre |-> <<Fence, Newline>>, suf |-> <<Newline, Fence>>],
     [pre |-> <<Fence, W("js", 2), Newline>>, suf |-> <<Newline, Fence, Newline>>],
     [pre |-> <<Fence, JsonTag>>, suf |-> <<Fence>>]}
ProseWraps ==
    {[pre |-> <<W("Here", 4), Space>>, suf |-> <<>>],
     [pre |-> <<>>, suf |-> <<Space, W("Done", 4)>>],
     [pre |-> <<Lorem, Lorem, Newline>>, suf |-> <<Newline, W("Done", 4)>>]}
BraceProseWraps ==
    {[pre |-> <<W("Set", 3), LBrace, W("x", 1), RBrace, Space>>, suf |-> <<>>],
     [pre |-> <<>>, suf |-> <<Space, W("end", 3), RBrace>>]}
Wraps == {NoWrap, [pre |-> <<Newline>>, suf |-> <<Newline>>]}
             \cup FenceWraps \cup ProseWraps \cup BraceProseWraps

NoOut ==
    [pre |-> <<>>, kind |-> "none", val |-> Undefined, junk |-> <<>>, suf |-> <<>>,
     err |-> ""]
JsonReply(w, x) == [NoOut EXCEPT !.pre = w.pre, !.kind = "json", !.val = x, !.suf = w.suf]
JunkReply(w, j) == [NoOut EXCEPT !.pre = w.pre, !.kind = "junk", !.junk = j, !.suf = w.suf]
\* the invocation raised instead of replying
Rejection(m) == [NoOut EXCEPT !.kind = "error", !.err = m]

Replies(maxLen) ==
    {JsonReply(w, x) : w \in Wraps, x \in ReplyObjects(maxLen) \cup OtherJson}
        \cup {JunkReply(w, j) : w \in Wraps, j \in Junk}

\* response.text()
Render(o) == o.pre \o (IF o.kind = "json" THEN Stringify(o.val) ELSE o.junk) \o o.suf

(***************************************************************************)
(* Requests                                                                *)
(***************************************************************************)
NoValue == "<undefined>"     \* a field the caller did not send

Methods == {"POST", "GET"}
Videos == {NoValue, "", "AAAA"}
Exercises == {"swing", "yoga"}
ArmPatterns ==
    {"left-only", "right-only", "alternating-sets", "alternating-reps", "both",
     "unspecified", NoValue}
StartingArms == {NoValue, "left", "right"}

NoProtocol ==
    [present |-> FALSE, exercise |-> NoValue, weight |-> 0, repsPerSet |-> 0,
     interval |-> 0, armPattern |-> NoValue, startingArm |-> NoValue]
Protocols ==
    {[present |-> TRUE, exercise |-> e, weight |-> 16, repsPerSet |-> 5,
      interval |-> 30, armPattern |-> a, startingArm |-> sa] :
        e \in Exercises, a \in ArmPatterns, sa \in StartingArms}

\* req.body is undefined when the request carries no body
NoBody == [present |-> FALSE, video |-> NoValue, protocol |-> NoProtocol]
Bodies ==
    {NoBody} \cup {[present |-> TRUE, video |-> v, protocol |-> p] :
                      v \in Videos, p \in Protocols \cup {NoProtocol}}

Requests == {[method |-> m, body |-> b] : m \in Methods, b \in Bodies}

\* !x for a request field
Falsy(x) == x \in {NoValue, ""}

(***************************************************************************)
(* buildPrompt and getArmContext                                           *)
(***************************************************************************)
ToUpperCase(s) ==
    CASE s = "left" -> "LEFT"
      [] s = "right" -> "RIGHT"
      [] OTHER -> s

\* {...}[protocol.exercise] || 'kettlebell exercise'
ExerciseName(e) ==
    CASE e = "snatch" -> "kettlebell snatch"
      [] e = "swing" -> "kettlebell swing"
      [] e = "clean" -> "kettlebell clean"
      [] e = "clean-press" -> "kettlebell clean and press"
      [] e = "jerk" -> "kettlebell jerk"
      [] OTHER -> "kettlebell exercise"

\* a sentence of getArmContext: its template and the values interpolated into it
ArmText(sentence, interval, upper, arm) ==
    [threw |-> FALSE, sentence |-> sentence, interval |-> interval,
     startingArmUpper |-> upper, startingArm |-> arm]
FixedArmText(sentence) == ArmText(sentence, 0, "", "")

\* protocol.startingArm.toUpperCase() on a missing startingArm: a TypeError
ArmThrown == [FixedArmText("") EXCEPT !.threw = TRUE]

getArmContext(protocol) ==
    CASE protocol.armPattern = "left-only" ->
           FixedArmText("All reps are performed with the LEFT arm.")
      [] protocol.armPattern = "right-only" ->
           FixedArmText("All reps are performed with the RIGHT arm.")
      [] protocol.armPattern = "alternating-sets" ->
           IF protocol.startingArm = NoValue THEN ArmThrown
           ELSE ArmText("Arms alternate each set (every $interval seconds). Starting arm: $UPPER. So sets 1,3,5... use $arm, sets 2,4,6... use the other arm.",
                        protocol.interval, ToUpperCase(protocol.startingArm),
                        protocol.startingArm)
      [] protocol.armPattern = "alternating-reps" ->
           IF protocol.startingArm = NoValue THEN ArmThrown
           ELSE ArmText("Arms alternate each rep. Starting arm: $UPPER.",
                        0, ToUpperCase(protocol.startingArm), "")
      [] protocol.armPattern = "both" ->
           FixedArmText("This is a two-handed exercise (both arms used simultaneously).")
      [] OTHER ->
           FixedArmText("Identify which arm is used for each rep based on visual observation.")

NoPrompt ==
    [compiled |-> FALSE, exerciseName |-> "", weight |-> 0, repsPerSet |-> 0,
     interval |-> 0, armContext |-> FixedArmText("")]

\* the prompt, as the values interpolated into its template
buildPrompt(protocol) ==
    [compiled |-> ~getArmContext(protocol).threw,
     exerciseName |-> ExerciseName(protocol.exercise),
     weight |-> protocol.weight,
     repsPerSet |-> protocol.repsPerSet,
     interval |-> protocol.interval,
     armContext |-> getArmContext(protocol)]

(***************************************************************************)
(* The frontend object (class KettlebellVBT of app.js): its videoFile and  *)
(* the properties of the page elements its methods read and write          *)
(***************************************************************************)
MaxVideoBytes == 104857600      \* 100 * 1024 * 1024

\* a File: name, MIME type and size; NoFile is null (or undefined)
File(name, type, size) == [name |-> name, type |-> type, size |-> size]
NoFile == File("", "", 0)

\* the files the user can pick or drop
UserFiles ==
    {File("a.mp4", "video/mp4", MaxVideoBytes),
     File("b.mov", "video/quicktime", 1),
     File("big.mp4", "video/mp4", MaxVideoBytes + 1),
     File("notes.txt", "text/plain", 1)}

\* s.startsWith(p)
StartsWith(s, p) == Len(s) >= Len(p) /\ SubSeq(s, 1, Len(p)) = p

\* what the results section holds: nothing, or the results of one video's
\* analysis (complete = FALSE when displayResults threw before it finished)
NoResults == [video |-> "", complete |-> FALSE]
ResultsOf(name, complete) == [video |-> name, complete |-> complete]

\* the page before any video is chosen: the state removeVideo restores
InitialApp ==
    [videoFile |-> NoFile,
     previewPlayerSrc |-> "",
     uploadZoneHidden |-> FALSE,
     videoPreviewHidden |-> TRUE,
     analyzeBtnDisabled |-> TRUE,
     btnText |-> "Analyze Video",
     btnLoaderHidden |-> TRUE,
     resultsSectionHidden |-> TRUE,
     resultsContent |-> NoResults,
     errorMessage |-> ""]

(***************************************************************************)
(* handler                                                                 *)
(***************************************************************************)
NoResult ==
    [t |-> "none", reps |-> Undefined, totalReps |-> Undefined, avgDuration |-> Undefined,
     avgVelocity |-> Undefined, fastestRep |-> Undefined, slowestRep |-> Undefined,
     velocityDropoff |-> Undefined, coachingNotes |-> Undefined]
NoMetric == [avgDuration |-> Undefined, avgVelocity |-> Undefined, dropoff |-> Undefined]

\* what parseGeminiResponse leaves in the handler when it throws
ThrownResult == [NoResult EXCEPT !.t = "throw"]

ErrorResponse(status, error, message) ==
    [status |-> status, error |-> error, message |-> message, json |-> NoResult]
OkResponse(r) == [status |-> 200, error |-> "", message |-> "", json |-> r]

\* errors the AI invocation can raise
AIErrors == {"fetch failed", "429 quota exceeded"}

\* replies the handler is run against
HandlerReplies ==
    {o \in Replies(1) :
        /\ o.pre \in {<<>>, <<Fence, JsonTag, Newline>>, <<W("Here", 4), Space>>,
                      <<W("Set", 3), LBrace, W("x", 1), RBrace, Space>>}
        /\ o.kind = "json" /\ o.val.t = "object" =>
              /\ GetProp(o.val, "summary") \in {Undefined, SummaryOf(ReportedSummary)}
              /\ GetProp(o.val, "reps") \in {Undefined, Arr(<<Rep("1", "8")>>), Num(5)}}

\* a catch block that answers without the underlying message
CatchDropsMessage(message) ==
    /\ responses' = Append(responses, ErrorResponse(500, "Analysis failed", ""))
    /\ pc' = "done"

\* the catch block of handler
Catch(message) ==
    /\ responses' = Append(responses, ErrorResponse(500, "Analysis failed", message))
    /\ pc' = "done"

\* if (req.method !== 'POST') return res.status(405)...
CheckMethod ==
    /\ pc = "start"
    /\ IF req.method # "POST"
       THEN /\ responses' = Append(responses, ErrorResponse(405, "Method not allowed", ""))
            /\ pc' = "done"
       ELSE /\ pc' = "validate"
            /\ UNCHANGED responses
    /\ UNCHANGED <<frontend, req, prompt, aiCalls, aiOut, text, result, reps, metric>>

\* a validation that hands over to the AI invocation without compiling the prompt
ValidateSkipsCompile ==
    /\ pc = "validate"
    /\ IF ~req.body.present
       THEN Catch("Cannot destructure property 'video' of 'req.body' as it is undefined.")
       ELSE IF Falsy(req.body.video) \/ ~req.body.protocol.present
       THEN /\ responses' = Append(responses,
                                   ErrorResponse(400, "Missing video or protocol data", ""))
            /\ pc' = "done"
       ELSE /\ pc' = "invoke"
            /\ UNCHANGED responses
    /\ UNCHANGED <<frontend, req, prompt, aiCalls, aiOut, text, result, reps, metric>>

\* const { video, mimeType, protocol } = req.body; if (!video || !protocol) ...
Validate ==
    /\ pc = "validate"
    /\ IF ~req.body.present
       THEN Catch("Cannot destructure property 'video' of 'req.body' as it is undefined.")
       ELSE IF Falsy(req.body.video) \/ ~req.body.protocol.present
       THEN /\ responses' = Append(responses,
                                   ErrorResponse(400, "Missing video or protocol data", ""))
            /\ pc' = "done"
       ELSE /\ pc' = "compile"
            /\ UNCHANGED responses
    /\ UNCHANGED <<frontend, req, prompt, aiCalls, aiOut, text, result, reps, metric>>

\* const prompt = buildPrompt(protocol);
CompilePrompt ==
    /\ pc = "compile"
    /\ IF buildPrompt(req.body.protocol).compiled
       THEN /\ prompt' = buildPrompt(req.body.protocol)
            /\ pc' = "invoke"
            /\ UNCHANGED responses
       ELSE /\ Catch("Cannot read properties of undefined (reading 'toUpperCase')")
            /\ UNCHANGED prompt
    /\ UNCHANGED <<frontend, req, aiCalls, aiOut, text, result, reps, metric>>

\* model.generateContent([...]) is called; the handler awaits it
InvokeAI ==
    /\ pc = "invoke"
    /\ aiCalls' = aiCalls + 1
    /\ pc' = "await"
    /\ UNCHANGED <<frontend, req, prompt, aiOut, text, result, responses, reps, metric>>

\* the awaited call resolves: text = response.text()
AIResolves ==
    /\ pc = "await"
    /\ \E o \in HandlerReplies :
          /\ aiOut' = o
          /\ text' = Render(o)
    /\ pc' = "normalize"
    /\ UNCHANGED <<frontend, req, prompt, aiCalls, result, responses, reps, metric>>

\* the awaited call rejects: the catch block answers
AIRejects ==
    /\ pc = "await"
    /\ \E m \in AIErrors :
          /\ aiOut' = Rejection(m)
          /\ Catch(m)
    /\ UNCHANGED <<frontend, req, prompt, aiCalls, text, result, reps, metric>>

\* const parsedResults = parseGeminiResponse(text, protocol);
ParseReply ==
    /\ pc = "normalize"
    /\ LET r == parseGeminiResponse(text)
       IN  IF IsThrown(r)
           THEN /\ Catch("parseGeminiResponse threw")
                /\ result' = ThrownResult
           ELSE /\ result' = r
                /\ pc' = "respond"
                /\ UNCHANGED responses
    /\ UNCHANGED <<frontend, req, prompt, aiCalls, aiOut, text, reps, metric>>

\* return res.status(200).json(parsedResults);
SendResult ==
    /\ pc = "respond"
    /\ responses' = Append(responses, OkResponse(result))
    /\ pc' = "done"
    /\ UNCHANGED <<frontend, req, prompt, aiCalls, aiOut, text, result, reps, metric>>

Init ==
    /\ req \in Requests
    /\ pc = "start"
    /\ prompt = NoPrompt
    /\ aiCalls = 0
    /\ aiOut = NoOut
    /\ text = <<>>
    /\ result = NoResult
    /\ responses = <<>>
    /\ reps = Undefined
    /\ metric = NoMetric
    /\ app = InitialApp
    /\ analyses = <<>>

Next ==
    \/ CheckMethod
    \/ Validate
    \/ CompilePrompt
    \/ InvokeAI
    \/ AIResolves
    \/ AIRejects
    \/ ParseReply
    \/ SendResult

Spec == Init /\ [][Next]_vars

\* the handler under its scheduling: a synchronous step that has been reached runs
\* (parseGeminiResponse is total, so the handler does not stay at normalize), and
\* the awaited generateContent call settles (it resolves or it rejects)
SpecLive ==
    /\ Init
    /\ [][Next]_vars
    /\ WF_vars(CheckMethod \/ Validate \/ CompilePrompt \/ InvokeAI \/ SendResult)
    /\ WF_vars(AIResolves \/ AIRejects)
    /\ []<>(pc # "normalize")

(***************************************************************************)
(* parseGeminiResponse on its own: every reply text, parsed once           *)
(***************************************************************************)
InitParse ==
    /\ req = [method |-> "POST", body |-> NoBody]
    /\ pc = "parse"
    /\ prompt = NoPrompt
    /\ aiCalls = 0
    /\ aiOut \in Replies(MaxReps)
    /\ text = Render(aiOut)
    /\ result = NoResult
    /\ responses = <<>>
    /\ reps = Undefined
    /\ metric = NoMetric
    /\ app = InitialApp
    /\ analyses = <<>>

ApplyParse ==
    /\ pc = "parse"
    /\ LET r == parseGeminiResponse(text)
       IN  result' = IF IsThrown(r) THEN ThrownResult ELSE r
    /\ pc' = "parsed"
    /\ UNCHANGED <<frontend, req, prompt, aiCalls, aiOut, text, responses, reps, metric>>

NextParse == ApplyParse

SpecParse == InitParse /\ [][NextParse]_vars

(***************************************************************************)
(* calculateAvg and calculateDropoff on their own                          *)
(***************************************************************************)
MetricRep(n, d, v) ==
    Obj(<<Member("repNumber", NumR(NumVal(n))), Member("duration", NumR(NumVal(d))),
          Member("velocityScore", NumR(NumVal(v)))>>)

\* rep numbers are not in velocity order, and sequences repeat and reorder them
MetricRepPool ==
    {MetricRep("3", "1", "8"), MetricRep("1", "2", "7"), MetricRep("4", "1.5", "6"),
     MetricRep("2", "2", "4"), MetricRep("5", "1", "0")}

MetricInputs == {Undefined} \cup {Arr(rs) : rs \in SeqsUpTo(MetricRepPool, MaxMetricReps)}

InitMetrics ==
    /\ req = [method |-> "POST", body |-> NoBody]
    /\ pc = "metrics"
    /\ prompt = NoPrompt
    /\ aiCalls = 0
    /\ aiOut = NoOut
    /\ text = <<>>
    /\ result = NoResult
    /\ responses = <<>>
    /\ reps \in MetricInputs
    /\ metric = NoMetric
    /\ app = InitialApp
    /\ analyses = <<>>

ApplyAvg ==
    /\ pc = "metrics"
    /\ metric' = [metric EXCEPT !.avgDuration = calculateAvg(reps, "duration"),
                                !.avgVelocity = calculateAvg(reps, "velocityScore")]
    /\ pc' = "averaged"
    /\ UNCHANGED <<frontend, req, prompt, aiCalls, aiOut, text, result, responses, reps>>

ApplyDropoff ==
    /\ pc = "averaged"
    /\ metric' = [metric EXCEPT !.dropoff = calculateDropoff(reps)]
    /\ pc' = "measured"
    /\ UNCHANGED <<frontend, req, prompt, aiCalls, aiOut, text, result, responses, reps>>

NextMetrics == ApplyAvg \/ ApplyDropoff

SpecMetrics == InitMetrics /\ [][NextMetrics]_vars

(***************************************************************************)
(* The frontend: the user's events and the asynchronous steps of           *)
(* analyzeVideo, interleaved as the browser's event loop allows            *)
(***************************************************************************)
MaxAnalyses == 2    \* most activations of analyzeVideo alive at once

\* the POST body, and what fetch resolves with
NoRequest == [video |-> "", mimeType |-> ""]
NoResponse == [ok |-> FALSE, body |-> "none", video |-> "", message |-> ""]

\* responses to a request: 200 with results that display, 200 with results whose
\* reps is not an array, an error object with or without a message, a body that is
\* not JSON
ResponsesTo(request) ==
    {[NoResponse EXCEPT !.ok = TRUE, !.body = "results", !.video = request.video],
     [NoResponse EXCEPT !.ok = TRUE, !.body = "malformed", !.video = request.video],
     [NoResponse EXCEPT !.body = "error", !.message = "fetch failed"],
     [NoResponse EXCEPT !.body = "error"],
     [NoResponse EXCEPT !.body = "html"]}

\* an activation of analyzeVideo suspended at an await
Activation(file) ==
    [pc |-> "reading", file |-> file, sent |-> NoRequest, response |-> NoResponse]

Remove(seq, i) == SubSeq(seq, 1, i - 1) \o SubSeq(seq, i + 1, Len(seq))

handleFileSelect(a, file) ==
    IF file = NoFile THEN a
    ELSE IF ~StartsWith(file.type, "video/") THEN a
    ELSE IF file.size > MaxVideoBytes THEN a
    ELSE [a EXCEPT !.videoFile = file,
                   !.previewPlayerSrc = "blob:" \o file.name,
                   !.uploadZoneHidden = TRUE,
                   !.videoPreviewHidden = FALSE,
                   !.analyzeBtnDisabled = FALSE]

removeVideo(a) ==
    [a EXCEPT !.previewPlayerSrc = "",
              !.videoFile = NoFile,
              !.uploadZoneHidden = FALSE,
              !.videoPreviewHidden = TRUE,
              !.analyzeBtnDisabled = TRUE,
              !.resultsSectionHidden = TRUE]

setLoading(a, loading) ==
    [a EXCEPT !.analyzeBtnDisabled = loading,
              !.btnText = IF loading THEN "Analyzing..." ELSE "Analyze Video",
              !.btnLoaderHidden = ~loading]

showError(a, message) == [a EXCEPT !.errorMessage = message]

\* displayResults run to its end
displayResults(a, results) ==
    [a EXCEPT !.resultsContent = ResultsOf(results.video, TRUE),
              !.resultsSectionHidden = FALSE]

\* displayResults up to results.reps.forEach, which throws when reps is no array
displayResultsThrows(a, results) ==
    [a EXCEPT !.resultsContent = ResultsOf(results.video, FALSE)]

\* the catch (when the try block threw) and the finally block: the activation ends
Finish(i, a) ==
    /\ app' = setLoading(a, FALSE)
    /\ analyses' = Remove(analyses, i)

\* the change event of the file input, reached through the upload zone
SelectFile ==
    /\ ~app.uploadZoneHidden
    /\ \E file \in UserFiles \cup {NoFile} : app' = handleFileSelect(app, file)
    /\ UNCHANGED <<analyses, backend>>

\* the drop event of the upload zone
DropFile ==
    /\ ~app.uploadZoneHidden
    /\ \E file \in UserFiles \cup {NoFile} :
          app' = IF file # NoFile /\ StartsWith(file.type, "video/")
                 THEN handleFileSelect(app, file)
                 ELSE app
    /\ UNCHANGED <<analyses, backend>>

\* the click event of the remove button, which the video preview shows
ClickRemove ==
    /\ ~app.videoPreviewHidden
    /\ app' = removeVideo(app)
    /\ UNCHANGED <<analyses, backend>>

\* the click event of the analyze button (a disabled button gets no click):
\* analyzeVideo up to await this.fileToBase64(this.videoFile)
ClickAnalyze ==
    /\ ~app.analyzeBtnDisabled
    /\ Len(analyses) < MaxAnalyses
    /\ IF app.videoFile = NoFile
       THEN UNCHANGED <<app, analyses>>
       ELSE /\ app' = [setLoading(app, TRUE) EXCEPT !.resultsSectionHidden = TRUE]
            /\ analyses' = Append(analyses, Activation(app.videoFile))
    /\ UNCHANGED backend

\* fileToBase64 resolves: the body is built (this.videoFile.type throws a TypeError
\* when the video was removed meanwhile) and fetch is called
ReadResolves ==
    /\ \E i \in 1..Len(analyses) :
          /\ analyses[i].pc = "reading"
          /\ IF app.videoFile = NoFile
             THEN Finish(i, showError(app, "Cannot read properties of null (reading 'type')"))
             ELSE /\ analyses' =
                       [analyses EXCEPT ![i].pc = "fetching",
                                        ![i].sent = [video |-> analyses[i].file.name,
                                                     mimeType |-> app.videoFile.type]]
                  /\ UNCHANGED app
    /\ UNCHANGED backend

\* fileToBase64 rejects with the reader's error event, which has no message
ReadRejects ==
    /\ \E i \in 1..Len(analyses) :
          /\ analyses[i].pc = "reading"
          /\ Finish(i, showError(app, ""))
    /\ UNCHANGED backend

\* fetch resolves: await response.json() follows on either branch
FetchResolves ==
    /\ \E i \in 1..Len(analyses) :
          /\ analyses[i].pc = "fetching"
          /\ \E r \in ResponsesTo(analyses[i].sent) :
                analyses' = [analyses EXCEPT ![i].pc = "json", ![i].response = r]
    /\ UNCHANGED <<app, backend>>

\* fetch rejects (the network failed)
FetchRejects ==
    /\ \E i \in 1..Len(analyses) :
          /\ analyses[i].pc = "fetching"
          /\ Finish(i, showError(app, "Failed to fetch"))
    /\ UNCHANGED backend

\* response.json() resolves: throw new Error(...) or displayResults(results)
JsonResolves ==
    /\ \E i \in 1..Len(analyses) :
          LET r == analyses[i].response
          IN  /\ analyses[i].pc = "json"
              /\ r.body # "html"
              /\ IF ~r.ok
                 THEN Finish(i, showError(app, IF r.message = "" THEN "Analysis failed"
                                               ELSE r.message))
                 ELSE IF r.body = "results"
                 THEN Finish(i, displayResults(app, r))
                 ELSE Finish(i, showError(displayResultsThrows(app, r),
                                          "results.reps.forEach is not a function"))
    /\ UNCHANGED backend

\* response.json() rejects: the body is not JSON
JsonRejects ==
    /\ \E i \in 1..Len(analyses) :
          /\ analyses[i].pc = "json"
          /\ analyses[i].response.body = "html"
          /\ Finish(i, showError(app, "Unexpected token < in JSON at position 0"))
    /\ UNCHANGED backend

\* setTimeout(() => errorDiv.remove(), 5000)
ErrorExpires ==
    /\ app.errorMessage # ""
    /\ app' = [app EXCEPT !.errorMessage = ""]
    /\ UNCHANGED <<analyses, backend>>

InitUI ==
    /\ req = [method |-> "POST", body |-> NoBody]
    /\ pc = "frontend"
    /\ prompt = NoPrompt
    /\ aiCalls = 0
    /\ aiOut = NoOut
    /\ text = <<>>
    /\ result = NoResult
    /\ responses = <<>>
    /\ reps = Undefined
    /\ metric = NoMetric
    /\ app = InitialApp
    /\ analyses = <<>>

NextUI ==
    \/ SelectFile
    \/ DropFile
    \/ ClickRemove
    \/ ClickAnalyze
    \/ ReadResolves
    \/ ReadRejects
    \/ FetchResolves
    \/ FetchRejects
    \/ JsonResolves
    \/ JsonRejects
    \/ ErrorExpires

SpecUI == InitUI /\ [][NextUI]_vars

(***************************************************************************)
(* Properties of the handler (checked under Spec)                          *)
(***************************************************************************)
Answered == pc = "done"
LastStatus == responses[Len(responses)].status
VideoMissing == ~req.body.present \/ Falsy(req.body.video)
ProtocolMissing == ~req.body.present \/ ~req.body.protocol.present
AISucceeded == aiOut.kind \in {"json", "junk"}

ResultFields ==
    {"reps", "totalReps", "avgDuration", "avgVelocity", "fastestRep", "slowestRep",
     "velocityDropoff", "coachingNotes"}
WellFormedResult(r) == r.t = "result" /\ \A f \in ResultFields : r[f].t # "undefined"

\* C1: a request whose method is not POST is answered 405, a POST request whose
\* video or protocol is missing is answered 400, and in both cases generateContent
\* is never invoked for that request.
C1_CallerErrorsRejected ==
    Answered =>
        /\ req.method # "POST" => LastStatus = 405 /\ aiCalls = 0
        /\ (req.method = "POST" /\ (VideoMissing \/ ProtocolMissing)) =>
              LastStatus = 400 /\ aiCalls = 0

\* C2: when the AI invocation raises, the request is answered by exactly one
\* response, 500 {error: 'Analysis failed', message: <the underlying message>}, and
\* generateContent is invoked at most once per request on every path.
C2_UpstreamErrorAnsweredOnce ==
    /\ aiCalls <= 1
    /\ Len(responses) <= 1
    /\ Answered => Len(responses) = 1
    /\ aiOut.kind = "error" =>
          /\ Answered
          /\ responses = <<ErrorResponse(500, "Analysis failed", aiOut.err)>>

C2_Witness == aiOut.kind = "error" /\ Answered /\ aiCalls = 1

\* C3: parseGeminiResponse never throws and returns all eight fields, so whenever
\* the AI invocation succeeded the request is answered 200 with that result, never
\* 500, whether or not the text was parseable.
C3_ParserNeverThrows ==
    /\ pc = "respond" => WellFormedResult(result)
    /\ (AISucceeded /\ Answered) =>
          /\ WellFormedResult(result)
          /\ responses = <<OkResponse(result)>>

C3_Witness ==
    /\ Answered
    /\ aiOut.kind = "junk"
    /\ LastStatus = 200
    /\ result.coachingNotes.str[1] = ParseErrorPrefix

\* C9: a request whose protocol alternates arms and has no startingArm is rejected
\* with a 4xx response before the prompt is compiled and before any AI invocation,
\* and no compiled prompt contains undefined-arm text.
Alternates(p) == p.present /\ p.armPattern \in {"alternating-sets", "alternating-reps"}
C9_MissingStartingArmRejected ==
    /\ (/\ Answered
        /\ req.method = "POST"
        /\ ~VideoMissing
        /\ Alternates(req.body.protocol)
        /\ req.body.protocol.startingArm = NoValue) =>
          /\ LastStatus \in 400..499
          /\ ~prompt.compiled
          /\ aiCalls = 0
    /\ prompt.compiled =>
          /\ prompt.armContext.startingArmUpper # NoValue
          /\ prompt.armContext.startingArm # NoValue

\* the position of a step in the pipeline
Rank(p) ==
    CASE p = "start" -> 0
      [] p = "validate" -> 1
      [] p = "compile" -> 2
      [] p = "invoke" -> 3
      [] p = "await" -> 4
      [] p = "normalize" -> 5
      [] p = "respond" -> 6
      [] p = "done" -> 7

ValidationPassed ==
    /\ req.method = "POST"
    /\ req.body.present
    /\ ~Falsy(req.body.video)
    /\ req.body.protocol.present

\* what has happened by the time the handler is at each step
OrderedSoFar ==
    /\ Rank(pc) >= Rank("compile") /\ pc # "done" => ValidationPassed
    /\ Rank(pc) >= Rank("invoke") /\ pc # "done" => prompt.compiled
    /\ prompt.compiled => ValidationPassed /\ prompt = buildPrompt(req.body.protocol)
    /\ aiCalls > 0 => ValidationPassed /\ prompt.compiled
    /\ aiOut # NoOut => aiCalls = 1
    /\ pc \in {"normalize", "respond"} => aiCalls = 1 /\ AISucceeded
    /\ result # NoResult => AISucceeded /\ text = Render(aiOut)
    /\ pc # "done" => responses = <<>>
    /\ pc = "done" =>
          /\ Len(responses) = 1
          /\ LastStatus \in {200, 400, 405, 500}
          /\ LastStatus = 200 => result # NoResult /\ responses[1].json = result

\* every step moves the handler forward in the pipeline and never withdraws a response
StepsForward ==
    /\ Rank(pc') > Rank(pc)
    /\ aiCalls' >= aiCalls
    /\ Len(responses') >= Len(responses)
    /\ \A i \in 1..Len(responses) : responses'[i] = responses[i]

\* C11: within one request the steps occur strictly in the order validate, compile
\* prompt, AI invocation, normalize, respond: the AI is invoked only after validation
\* passed and the prompt was compiled, normalization starts only after the AI call
\* completed, and every request ends with exactly one response whose status is one
\* of 200, 400, 405, 500.
C11_PipelineInOrder ==
    /\ []OrderedSoFar
    /\ [][StepsForward]_vars
    /\ <>[](pc = "done" /\ Len(responses) = 1 /\ LastStatus \in {200, 400, 405, 500})

C11_Witness ==
    /\ Answered
    /\ LastStatus = 200
    /\ aiCalls = 1
    /\ prompt.compiled
    /\ result.t = "result"

(***************************************************************************)
(* Properties of parseGeminiResponse (checked under SpecParse)             *)
(***************************************************************************)
Parsed == pc = "parsed"
WrapOf(o) == [pre |-> o.pre, suf |-> o.suf]

\* the result for the payload alone, with nothing around it
AloneResult(o) == parseGeminiResponse(Stringify(o.val))
AloneSucceeds(o) == ~IsThrown(TryParse(Stringify(o.val)))

\* an object of the documented shape: reps, when present, is an array of objects
RepObjects(x) == x.t = "array" /\ \A i \in 1..Len(x.items) : x.items[i].t = "object"
WellShaped(x) ==
    /\ x.t = "object"
    /\ GetProp(x, "reps") = Undefined \/ RepObjects(GetProp(x, "reps"))
    /\ GetProp(x, "summary").t \in {"undefined", "object"}

NumericFields ==
    <<"totalReps", "avgDuration", "avgVelocity", "fastestRep", "slowestRep",
      "velocityDropoff">>

\* p is the first characters of txt
IsCharPrefix(p, txt) ==
    /\ Len(p) <= Len(txt)
    /\ \A i \in 1..Len(p) :
          /\ p[i].c = txt[i].c /\ p[i].s = txt[i].s
          /\ p[i].n >= 1 /\ p[i].n <= txt[i].n
          /\ i < Len(p) => p[i].n = txt[i].n

\* coachingNotes is the diagnostic: the prefix literal, then a prefix of the raw text
IsDiagnostic(notes, txt) ==
    /\ notes.t = "string"
    /\ notes.str # <<>>
    /\ notes.str[1] = ParseErrorPrefix
    /\ IsCharPrefix(Tail(notes.str), txt)
    /\ CharLen(Tail(notes.str)) <= 300
OnSuccessPath(r) == r.t = "result" /\ (r.coachingNotes.str = <<>> \/ r.coachingNotes.str[1] # ParseErrorPrefix)

\* C4: for every text that is not a JSON object of the expected shape (non-JSON
\* text, or JSON that is not an object, such as [], 123, null) the result has
\* reps = [], the six numeric fields 0, and a non-empty coachingNotes holding a
\* prefix of at most 300 characters of the raw text.
NotExpectedShape(o) == o.kind = "junk" \/ (o.kind = "json" /\ o.val.t # "object")
C4_MalformedYieldsZeroes ==
    (Parsed /\ NotExpectedShape(aiOut)) =>
        /\ result.reps = Arr(<<>>)
        /\ \A i \in 1..6 : result[NumericFields[i]] = Num(0)
        /\ IsDiagnostic(result.coachingNotes, text)

\* C5: for every well-formed JSON reply that carries a summary object, each summary
\* field of the result equals the value the model reported, for every reported value
\* including 0; no value recomputed from reps replaces a reported one.
ReportsSummary(o) ==
    /\ o.kind = "json"
    /\ WellShaped(o.val)
    /\ WrapOf(o) = NoWrap
    /\ \A i \in 1..6 : GetProp(GetProp(o.val, "summary"), SummaryKeys[i]).t = "number"
C5_ReportedSummaryKept ==
    (Parsed /\ ReportsSummary(aiOut)) =>
        \A i \in 1..6 :
            result[NumericFields[i]] = GetProp(GetProp(aiOut.val, "summary"), SummaryKeys[i])

\* C6: for every parsed JSON with a reps array and no summary object, avgDuration
\* and avgVelocity are the arithmetic mean (the sum of the field over all reps
\* divided by the number of reps) of duration and velocityScore, and are 0 when
\* reps is empty or missing.
RECURSIVE FieldTotal(_, _)
FieldTotal(rs, field) ==
    IF rs = <<>> THEN RZero
    ELSE RAdd(GetProp(Head(rs), field).num, FieldTotal(Tail(rs), field))
IsMeanOf(x, rs, field) ==
    /\ x.t = "number"
    /\ IF rs = <<>> THEN x.num = RZero
       ELSE RMul(x.num, <<Len(rs), 1>>) = FieldTotal(rs, field)
ParsedData == JSONParse(CleanText(text))
NeedsRepair ==
    /\ Parsed
    /\ ParsedData.ok
    /\ WellShaped(ParsedData.val)
    /\ GetProp(ParsedData.val, "summary") = Undefined
C6_MissingSummaryRepaired ==
    NeedsRepair =>
        LET rs == GetProp(ParsedData.val, "reps").items
        IN  /\ IsMeanOf(result.avgDuration, rs, "duration")
            /\ IsMeanOf(result.avgVelocity, rs, "velocityScore")

C6_Witness ==
    /\ NeedsRepair
    /\ Len(GetProp(ParsedData.val, "reps").items) = 2
    /\ result.avgDuration.num = <<3, 2>>
    /\ result.avgVelocity.num = <<6, 1>>

\* C7 (as stated): for every JSON payload P, the result for P wrapped in a leading
\* fence (with or without a language tag) and a trailing fence is the result for P
\* alone.
Fenced(o) == o.kind = "json" /\ WrapOf(o) \in FenceWraps
C7_FencedParsesAsBare ==
    (Parsed /\ Fenced(aiOut)) => result = AloneResult(aiOut)

\* C7 (amended): for every JSON payload P wrapped in a leading and a trailing fence
\* (P being a JSON object when the fence carries a tag other than json), reps and
\* the six numeric fields are those of P alone, and so is coachingNotes whenever P
\* alone takes the success path.
HasOtherTag(o) == Len(o.pre) >= 2 /\ o.pre[2].c = "word" /\ o.pre[2] # JsonTag
C7_FencedParsesAsBareAmended ==
    (Parsed /\ Fenced(aiOut) /\ (aiOut.val.t = "object" \/ ~HasOtherTag(aiOut))) =>
        /\ result.reps = AloneResult(aiOut).reps
        /\ \A i \in 1..6 : result[NumericFields[i]] = AloneResult(aiOut)[NumericFields[i]]
        /\ AloneSucceeds(aiOut) => result.coachingNotes = AloneResult(aiOut).coachingNotes

C7_Witness ==
    /\ Parsed
    /\ Fenced(aiOut)
    /\ HasOtherTag(aiOut)
    /\ Len(result.reps.items) = 2
    /\ result.coachingNotes = Str(<<W("Good", 4)>>)

\* C8 (as stated): for every text made of leading prose, a single valid JSON object
\* and trailing prose, including prose that itself contains braces, the result is
\* on the success path and holds the fields of the embedded object.
C8_ProseAroundObjectExtracted ==
    (/\ Parsed
     /\ aiOut.kind = "json"
     /\ WellShaped(aiOut.val)
     /\ WrapOf(aiOut) \in ProseWraps \cup BraceProseWraps) =>
        /\ OnSuccessPath(result)
        /\ result = AloneResult(aiOut)

\* C8 (amended): for every text made of leading prose, a single valid JSON object
\* and trailing prose, the prose containing no brace, the text handed to JSON.parse
\* is exactly the embedded object, and the result is on the success path and holds
\* the fields of the embedded object.
C8_BraceFreeProseExtracted ==
    (/\ Parsed
     /\ aiOut.kind = "json"
     /\ WellShaped(aiOut.val)
     /\ WrapOf(aiOut) \in ProseWraps) =>
        /\ CleanText(text) = Stringify(aiOut.val)
        /\ OnSuccessPath(result)
        /\ result = AloneResult(aiOut)

C8_Witness ==
    /\ Parsed
    /\ aiOut.kind = "json"
    /\ WellShaped(aiOut.val)
    /\ WrapOf(aiOut) \in ProseWraps
    /\ CharLen(aiOut.pre) > 300
    /\ aiOut.suf # <<>>
    /\ Len(result.reps.items) = 2

\* the model supplied summary.k
Supplied(k) == OptProp(GetProp(ParsedData.val, "summary"), k) # Undefined
ExtremesNotSupplied ==
    /\ Parsed
    /\ ParsedData.ok
    /\ OnSuccessPath(result)
    /\ ~Supplied("fastestRep")
    /\ ~Supplied("slowestRep")
RepCount == Len(result.reps.items)

\* C12 (as stated): on the success path, when the model supplies neither fastestRep
\* nor slowestRep, fastestRep is 1, slowestRep is the length of the reps array, and
\* totalReps is the count of reps (stated here for replies that are objects of the
\* documented shape only).
C12_DefaultsFromReps ==
    (ExtremesNotSupplied /\ WellShaped(ParsedData.val)) =>
        /\ result.fastestRep = Num(1)
        /\ result.slowestRep = Num(RepCount)
        /\ result.totalReps = Num(RepCount)

\* C12 (amended): on the success path, when the model supplies neither fastestRep
\* nor slowestRep, reps is an array, fastestRep is 1, slowestRep is the length of
\* the reps array when there is at least one rep and 1 when there is none, and
\* totalReps is the count of reps unless the model supplied a non-zero totalReps,
\* which is then kept.
C12_DefaultsFromRepsAmended ==
    ExtremesNotSupplied =>
        /\ result.reps.t = "array"
        /\ result.fastestRep = Num(1)
        /\ result.slowestRep = (IF RepCount > 0 THEN Num(RepCount) ELSE Num(1))
        /\ result.totalReps =
              Or(OptProp(GetProp(ParsedData.val, "summary"), "totalReps"), Num(RepCount))

C12_Witness ==
    /\ ExtremesNotSupplied
    /\ RepCount = 2
    /\ result.fastestRep = Num(1)
    /\ result.slowestRep = Num(2)
    /\ result.totalReps = Num(2)

(***************************************************************************)
(* Properties of the metric helpers (checked under SpecMetrics)            *)
(***************************************************************************)
Velocity(r) == GetProp(r, "velocityScore").num
RepItems == IF reps.t = "array" THEN reps.items ELSE <<>>
Velocities == [i \in 1..Len(RepItems) |-> Velocity(RepItems[i])[1]]

\* C10: calculateDropoff returns (first - last) / first * 100 over the velocity
\* scores of the first and the last rep by array position, 0 for fewer than 2 reps
\* or a first score of 0, and 50 for the scores [8, 7, 6, 4].
C10_DropoffFirstToLast ==
    pc = "measured" =>
        LET n == Len(RepItems)
            d == metric.dropoff
        IN  /\ d.t = "number"
            /\ n < 2 => d = Num(0)
            /\ (n >= 2 /\ Velocity(RepItems[1]) = RZero) => d = Num(0)
            /\ (n >= 2 /\ Velocity(RepItems[1]) # RZero) =>
                  RMul(d.num, Velocity(RepItems[1]))
                      = RMul(RSub(Velocity(RepItems[1]), Velocity(RepItems[n])), <<100, 1>>)
            /\ Velocities = <<8, 7, 6, 4>> => d.num = <<50, 1>>

C10_Witness ==
    /\ pc = "measured"
    /\ Velocities = <<8, 7, 6, 4>>
    /\ metric.dropoff = Num(50)

(***************************************************************************)
(* Properties of the frontend (checked under SpecUI)                       *)
(***************************************************************************)
VideoSelected == app.videoFile # NoFile
AnalyzeEnabled == ~app.analyzeBtnDisabled
ResultsVisible == ~app.resultsSectionHidden

\* the activations whose request has been sent and not yet answered in full
RequestsInFlight == {i \in 1..Len(analyses) : analyses[i].pc \in {"fetching", "json"}}

\* C13: under any interleaving of file selection, video removal, analyze clicks and
\* analysis completions, the analyze button is enabled only while a video file is
\* selected and no analysis is in flight, so at most one analysis request is in
\* flight at any time.
C13_OneRequestInFlight ==
    /\ AnalyzeEnabled => VideoSelected /\ analyses = <<>>
    /\ Cardinality(RequestsInFlight) <= 1

\* C14: once removeVideo has hidden the results section it stays hidden until an
\* analysis started after that removal completes, so a response of an analysis
\* started before the removal never makes results visible again: whenever results
\* are visible a video is selected, and they are results of that video.
C14_ResultsOfSelectedVideo ==
    ResultsVisible =>
        /\ VideoSelected
        /\ app.resultsContent.video = app.videoFile.name

====
